---- MODULE Spec2Model ----
(***************************************************************************)
(* A model of src/bucket.rs: the ElasticHashing table (bucket partitioning *)
(* of one backing store and the bucket accessors), ElasticHashing::hash    *)
(* and the pairing function ElasticHashing::phi.                            *)
(*                                                                         *)
(* Three specifications share the module:                                  *)
(*   Spec      the table: new, calc_bucket_size, the accessors, writes     *)
(*   SpecHash  hash(x): to_le_bytes, one Cursor, two murmur3_32 calls, phi *)
(*   SpecPhi   phi(a, b) applied to two pairs of inputs                    *)
(*                                                                         *)
(* Number representations (TLC's integers are 32-bit signed):              *)
(*   usize  an integer r; r >= 0 is the value r, r < 0 is the value        *)
(*          2^64 + r (what a wrapping subtraction leaves, and -1 is        *)
(*          usize::MAX).                                                   *)
(*   u32    its four bytes, least significant first (as to_le_bytes).      *)
(*   u128   the binary digits of the value, most significant first,        *)
(*          without leading zeros (<< >> is 0), at most 128 of them.       *)
(***************************************************************************)
EXTENDS Integers, Sequences, FiniteSets

VARIABLES
    \* ---- the table (struct ElasticHashing and the position in new) ----
    overflow_checks, \* build profile: TRUE = debug (overflow panics), FALSE = release (wraps)
    pc,              \* "new" | "loop" | "ready" | "panicked" ("idle": no table)
    panic,           \* the panic message, "" while none
    arg,             \* the argument of ElasticHashing::new
    size,            \* self.size
    data,            \* self.data : Vec<i32>
    bucket_offsets,  \* self.bucket_offsets : Vec<usize>
    current_size,    \* calc_bucket_size's local
    remaining_size,  \* calc_bucket_size's local (usize)
    ret,             \* what the last accessor call returned
    \* ---- hash(x) ----
    hpc,             \* "start" | "h1" | "h2" | "phi" | "done"
    key,             \* the key x (i32)
    cursor,          \* Cursor<[u8; 4]>: [bytes, pos]
    h1, h2,          \* the two murmur3_32 results (u32)
    read1, read2,    \* the bytes each murmur3_32 call consumed
    hres,            \* hash's result (u128)
    \* ---- phi(a, b) on two input pairs ----
    ppc,             \* "call" | "done"
    in_a, in_b,      \* the inputs of the first call (u32)
    in_a2, in_b2,    \* the inputs of the second call (u32)
    r1, r2           \* phi(in_a, in_b) and phi(in_a2, in_b2) (u128)

tvars == <<overflow_checks, pc, panic, arg, size, data, bucket_offsets,
           current_size, remaining_size, ret>>
hvars == <<hpc, key, cursor, h1, h2, read1, read2, hres>>
pvars == <<ppc, in_a, in_b, in_a2, in_b2, r1, r2>>
vars == <<tvars, hvars, pvars>>

(***************************************************************************)
(* Bounds of the model.                                                    *)
(***************************************************************************)
MaxCap == 10      \* capacities 0 .. MaxCap are passed to new
AllocSlack == 8   \* the allocator fails beyond MaxCap + AllocSlack slots
MaxIdx == 5       \* bucket indices 0 .. MaxIdx (and usize::MAX) are passed to the accessors

MaxAlloc == MaxCap + AllocSlack
UsizeMax == -1    \* usize::MAX in the usize representation

(***************************************************************************)
(* usize helpers.                                                          *)
(***************************************************************************)
\* x < y on usize values
ULt(u, v) ==
    IF (u >= 0) = (v >= 0) THEN u < v ELSE v < 0

UGe(u, v) == ~ULt(u, v)

Zeros(n) == [i \in 1..n |-> 0]

\* the elements v[start..end) of a Vec (0-based bounds)
Slice(v, start, end) == SubSeq(v, start + 1, end)

\* the first bucket's size, line 30
InitialCurrent(sz) == (sz + 1) \div 2

\* variant: the halving rounds down
NextCurrent_Floor(cur) == cur \div 2

\* the next bucket's size, line 46
NextCurrent(cur) == (cur + 1) \div 2

(***************************************************************************)
(* ElasticHashing::new, lines 15-27, with the head of calc_bucket_size,    *)
(* lines 30-36.                                                            *)
(***************************************************************************)
\* variant: new without the test of lines 16-18
New_NoSizeCheck ==
    /\ pc = "new"
    /\ size' = arg
    /\ current_size' = InitialCurrent(arg)
    /\ remaining_size' = arg
    /\ bucket_offsets' = <<0>>
    /\ data' = << >>
    /\ pc' = "loop"
    /\ panic' = ""
    /\ UNCHANGED <<overflow_checks, arg, ret>>

New ==
    /\ pc = "new"
    /\ IF arg = 0
       THEN /\ pc' = "panicked"
            /\ panic' = "Size must be greater than 0"
            /\ UNCHANGED <<size, data, bucket_offsets, current_size, remaining_size>>
       ELSE /\ size' = arg
            /\ current_size' = InitialCurrent(arg)
            /\ remaining_size' = arg
            /\ bucket_offsets' = <<0>>
            /\ data' = << >>
            /\ pc' = "loop"
            /\ panic' = ""
    /\ UNCHANGED <<overflow_checks, arg, ret>>

(***************************************************************************)
(* One iteration of the while loop of calc_bucket_size, lines 38-47.       *)
(* data.resize fails (capacity overflow) when the allocator cannot give    *)
(* the slots; `remaining_size -= current_size` on remaining_size <         *)
(* current_size panics under overflow checks and wraps without them.       *)
(***************************************************************************)
LoopIter ==
    /\ pc = "loop"
    /\ remaining_size # 0            \* remaining_size > 0 on usize
    /\ LET newlen == Len(data) + current_size IN
       IF newlen > MaxAlloc
       THEN /\ pc' = "panicked"
            /\ panic' = "capacity overflow"
            /\ UNCHANGED <<data, bucket_offsets, current_size, remaining_size>>
       ELSE /\ data' = data \o Zeros(current_size)
            /\ bucket_offsets' = Append(bucket_offsets, newlen)
            /\ IF overflow_checks /\ remaining_size > 0 /\ remaining_size < current_size
               THEN /\ pc' = "panicked"
                    /\ panic' = "attempt to subtract with overflow"
                    /\ UNCHANGED <<current_size, remaining_size>>
               ELSE /\ remaining_size' = remaining_size - current_size
                    /\ current_size' = NextCurrent(current_size)
                    /\ UNCHANGED <<pc, panic>>
    /\ UNCHANGED <<overflow_checks, arg, size, ret>>

(***************************************************************************)
(* The loop's exit, the pop of the last offset (line 50) and the return    *)
(* of new (line 26).  Lines 52-61 only print.                              *)
(***************************************************************************)
LoopExit ==
    /\ pc = "loop"
    /\ remaining_size = 0
    /\ bucket_offsets' = SubSeq(bucket_offsets, 1, Len(bucket_offsets) - 1)
    /\ pc' = "ready"
    /\ UNCHANGED <<overflow_checks, panic, arg, size, data, current_size,
                   remaining_size, ret>>

(***************************************************************************)
(* get_bucket, lines 65-78: the region it returns.                         *)
(*   [kind |-> "empty"]              the static empty slice &[]            *)
(*   [kind |-> "slice", start, end]  &self.data[start..end]                *)
(*   [kind |-> "panic"]              an index or a range out of bounds     *)
(***************************************************************************)
\* variant: get_bucket without the test of lines 66-68
get_bucket_NoRangeCheck(bucket_idx) ==
    IF bucket_idx < 0 \/ bucket_idx >= Len(bucket_offsets)
    THEN [kind |-> "panic"]
    ELSE LET start == bucket_offsets[bucket_idx + 1]
             end == IF bucket_idx + 1 < Len(bucket_offsets)
                    THEN bucket_offsets[bucket_idx + 2]
                    ELSE Len(data)
         IN  IF start > end \/ end > Len(data)
             THEN [kind |-> "panic"]
             ELSE [kind |-> "slice", start |-> start, end |-> end]

get_bucket(bucket_idx) ==
    IF UGe(bucket_idx, Len(bucket_offsets))
    THEN [kind |-> "empty"]
    ELSE LET start == bucket_offsets[bucket_idx + 1]
             end == IF bucket_idx + 1 < Len(bucket_offsets)
                    THEN bucket_offsets[bucket_idx + 2]
                    ELSE Len(data)
         IN  IF start > end \/ end > Len(data)
             THEN [kind |-> "panic"]
             ELSE [kind |-> "slice", start |-> start, end |-> end]

\* variant: get_bucket_mut with every slice running to data.len()
get_bucket_mut_ToEnd(bucket_idx) ==
    IF UGe(bucket_idx, Len(bucket_offsets))
    THEN [kind |-> "empty"]
    ELSE LET start == bucket_offsets[bucket_idx + 1]
             end == Len(data)
         IN  IF start > end \/ end > Len(data)
             THEN [kind |-> "panic"]
             ELSE [kind |-> "slice", start |-> start, end |-> end]

\* get_bucket_mut, lines 81-94
get_bucket_mut(bucket_idx) ==
    IF UGe(bucket_idx, Len(bucket_offsets))
    THEN [kind |-> "empty"]
    ELSE LET start == bucket_offsets[bucket_idx + 1]
             end == IF bucket_idx + 1 < Len(bucket_offsets)
                    THEN bucket_offsets[bucket_idx + 2]
                    ELSE Len(data)
         IN  IF start > end \/ end > Len(data)
             THEN [kind |-> "panic"]
             ELSE [kind |-> "slice", start |-> start, end |-> end]

\* bucket_count, lines 97-99
bucket_count == Len(bucket_offsets)

\* the elements of a returned region
Elems(r) == IF r.kind = "slice" THEN Slice(data, r.start, r.end) ELSE << >>

Indices == (0..MaxIdx) \cup {UsizeMax}

\* the slot values written
Values == {0, 1}

NoRet == [op |-> "none"]

GetBucket ==
    /\ pc = "ready"
    /\ \E i \in Indices :
          LET r == get_bucket(i) IN
          /\ ret' = [op |-> "get_bucket", idx |-> i, region |-> r, elems |-> Elems(r)]
          /\ IF r.kind = "panic"
             THEN pc' = "panicked" /\ panic' = "index out of bounds"
             ELSE UNCHANGED <<pc, panic>>
    /\ UNCHANGED <<overflow_checks, arg, size, data, bucket_offsets, current_size,
                   remaining_size>>

GetBucketMut ==
    /\ pc = "ready"
    /\ \E i \in Indices :
          LET r == get_bucket_mut(i) IN
          /\ ret' = [op |-> "get_bucket_mut", idx |-> i, region |-> r, elems |-> Elems(r)]
          /\ IF r.kind = "panic"
             THEN pc' = "panicked" /\ panic' = "index out of bounds"
             ELSE UNCHANGED <<pc, panic>>
    /\ UNCHANGED <<overflow_checks, arg, size, data, bucket_offsets, current_size,
                   remaining_size>>

BucketCount ==
    /\ pc = "ready"
    /\ ret' = [op |-> "bucket_count", n |-> bucket_count]
    /\ UNCHANGED <<overflow_checks, pc, panic, arg, size, data, bucket_offsets,
                   current_size, remaining_size>>

(***************************************************************************)
(* A write slice[k] = v through the slice the last get_bucket_mut call     *)
(* returned (the caller holds that exclusive borrow until its next call).  *)
(***************************************************************************)
WriteSlot ==
    /\ pc = "ready"
    /\ ret.op = "get_bucket_mut"
    /\ ret.region.kind = "slice"
    /\ \E k \in 0..(ret.region.end - ret.region.start - 1), v \in Values :
          /\ data' = [data EXCEPT ![ret.region.start + k + 1] = v]
          /\ ret' = [ret EXCEPT !.elems = Slice(data', ret.region.start, ret.region.end)]
    /\ UNCHANGED <<overflow_checks, pc, panic, arg, size, bucket_offsets, current_size,
                   remaining_size>>

(***************************************************************************)
(* u32 arithmetic on the four little-endian bytes of a value.              *)
(***************************************************************************)
U32Bits == 32
U128Bits == 128

RECURSIVE Pow2(_)
Pow2(n) == IF n = 0 THEN 1 ELSE 2 * Pow2(n - 1)

\* the u32 of a natural number below 2^31
U32(n) == [k \in 1..4 |-> (n \div Pow2(8 * (k - 1))) % 256]

\* the u32 written as in the source, most significant byte first
Hex32(b3, b2, b1, b0) == <<b0, b1, b2, b3>>

\* bit i (0 = least significant) of a u32: (v >> i) & 1
Bit(v, i) == (v[(i \div 8) + 1] \div Pow2(i % 8)) % 2

\* the u32 whose bit i is f[i]
FromBits(f) ==
    [k \in 1..4 |->
        LET o == 8 * (k - 1) IN
        f[o] + 2 * f[o + 1] + 4 * f[o + 2] + 8 * f[o + 3] + 16 * f[o + 4]
        + 32 * f[o + 5] + 64 * f[o + 6] + 128 * f[o + 7]]

Xor32(u, v) == FromBits([i \in 0..31 |-> (Bit(u, i) + Bit(v, i)) % 2])

\* u32::wrapping_shr
Shr32(u, n) == FromBits([i \in 0..31 |-> IF i + n <= 31 THEN Bit(u, i + n) ELSE 0])

\* u32::rotate_left
RotateLeft(u, n) == FromBits([i \in 0..31 |-> Bit(u, (i + 32 - n) % 32)])

\* u32::wrapping_add
WrappingAdd(u, v) ==
    LET t1 == u[1] + v[1]
        t2 == u[2] + v[2] + t1 \div 256
        t3 == u[3] + v[3] + t2 \div 256
        t4 == u[4] + v[4] + t3 \div 256
    IN  <<t1 % 256, t2 % 256, t3 % 256, t4 % 256>>

\* u32::wrapping_mul
WrappingMul(u, v) ==
    LET t1 == u[1] * v[1]
        t2 == u[1] * v[2] + u[2] * v[1] + t1 \div 256
        t3 == u[1] * v[3] + u[2] * v[2] + u[3] * v[1] + t2 \div 256
        t4 == u[1] * v[4] + u[2] * v[3] + u[3] * v[2] + u[4] * v[1] + t3 \div 256
    IN  <<t1 % 256, t2 % 256, t3 % 256, t4 % 256>>

\* u32::leading_zeros
RECURSIVE LeadingZerosFrom(_, _)
LeadingZerosFrom(v, i) ==
    IF i < 0 THEN U32Bits
    ELSE IF Bit(v, i) = 1 THEN (U32Bits - 1) - i
    ELSE LeadingZerosFrom(v, i - 1)

leading_zeros(v) == LeadingZerosFrom(v, U32Bits - 1)

\* i32::to_le_bytes: the two's complement bytes of x, least significant first
to_le_bytes(x) ==
    IF x >= 0 THEN U32(x)
    ELSE LET low == U32((x + 2147483647) + 1)      \* x + 2^31, the low 31 bits
         IN  [low EXCEPT ![4] = low[4] + 128]

(***************************************************************************)
(* murmur3::murmur3_32 (the crate the source imports on line 3), as the    *)
(* source calls it on lines 104-105: it reads its source four bytes at a   *)
(* time until the source is exhausted, and leaves the source's position    *)
(* at the end.                                                             *)
(***************************************************************************)
MURMUR_SEED_1 == Hex32(151, 71, 178, 140)     \* 0x9747b28c
MURMUR_SEED_2 == Hex32(133, 235, 202, 107)    \* 0x85ebca6b

calc_k(k) ==
    WrappingMul(RotateLeft(WrappingMul(k, Hex32(204, 158, 45, 81)), 15),   \* 0xcc9e2d51
                Hex32(27, 135, 53, 147))                                    \* 0x1b873593

finish(state, processed) ==
    LET s1 == Xor32(state, U32(processed))
        s2 == Xor32(s1, Shr32(s1, 16))
        s3 == WrappingMul(s2, Hex32(133, 235, 202, 107))                    \* 0x85ebca6b
        s4 == Xor32(s3, Shr32(s3, 13))
        s5 == WrappingMul(s4, Hex32(194, 178, 174, 53))                     \* 0xc2b2ae35
    IN  Xor32(s5, Shr32(s5, 16))

\* Cursor::read into a 4-byte buffer: the bytes it yields
CursorRead(source) ==
    SubSeq(source.bytes, source.pos + 1,
           IF source.pos + 4 <= Len(source.bytes) THEN source.pos + 4
           ELSE Len(source.bytes))

\* a short buffer as a u32, the missing high bytes zero
PadBuffer(buffer) == [k \in 1..4 |-> IF k <= Len(buffer) THEN buffer[k] ELSE 0]

RECURSIVE MurmurLoop(_, _, _)
MurmurLoop(source, state, processed) ==
    LET buffer == CursorRead(source)
        n == Len(buffer)
        next == [source EXCEPT !.pos = source.pos + n]
    IN  IF n = 4
        THEN MurmurLoop(next,
                        WrappingAdd(WrappingMul(RotateLeft(Xor32(state, calc_k(buffer)), 13),
                                                U32(5)),
                                    Hex32(230, 84, 107, 100)),              \* 0xe6546b64
                        processed + 4)
        ELSE IF n > 0
        THEN MurmurLoop(next, Xor32(state, calc_k(PadBuffer(buffer))), processed + n)
        ELSE [hash |-> finish(state, processed), source |-> source]

\* murmur3_32(&mut source, seed): the hash and the source as it is left
murmur3_32(source, seed) == MurmurLoop(source, seed, 0)

(***************************************************************************)
(* u128: (result << 1) | bit.                                              *)
(***************************************************************************)
RECURSIVE Strip(_)
Strip(d) == IF d # << >> /\ Head(d) = 0 THEN Strip(Tail(d)) ELSE d

ShlOr(result, bit) ==
    LET d == Append(result, bit)
        low == IF Len(d) > U128Bits THEN SubSeq(d, Len(d) - U128Bits + 1, Len(d)) ELSE d
    IN  Strip(low)

(***************************************************************************)
(* phi, lines 109-135.                                                     *)
(***************************************************************************)
\* the loop of lines 119-124, at index i
RECURSIVE MarkLoop(_, _, _)
MarkLoop(result, b, i) ==
    IF i < 0 THEN result
    ELSE LET marked == ShlOr(result, 1)               \* line 121
             next == ShlOr(marked, Bit(b, i))         \* line 123
         IN  IF Len(next) <= U128Bits                 \* always: a u128 (evaluates next here)
             THEN MarkLoop(next, b, i - 1)
             ELSE next

\* the loop of lines 130-132, at index i
RECURSIVE CopyLoop(_, _, _)
CopyLoop(result, a, i) ==
    IF i < 0 THEN result
    ELSE LET next == ShlOr(result, Bit(a, i))         \* line 131
         IN  IF Len(next) <= U128Bits                 \* always: a u128 (evaluates next here)
             THEN CopyLoop(next, a, i - 1)
             ELSE next

\* variant: phi without the separator of line 127
phi_NoSeparator(a, b) ==
    LET b_bits == IF b = U32(0) THEN 0 ELSE U32Bits - leading_zeros(b)
        a_bits == IF a = U32(0) THEN 0 ELSE U32Bits - leading_zeros(a)
    IN  CopyLoop(MarkLoop(<< >>, b, b_bits - 1), a, a_bits - 1)

\* variant: phi without the markers of line 121
phi_NoMarker(a, b) ==
    LET b_bits == IF b = U32(0) THEN 0 ELSE U32Bits - leading_zeros(b)
        a_bits == IF a = U32(0) THEN 0 ELSE U32Bits - leading_zeros(a)
    IN  CopyLoop(ShlOr(CopyLoop(<< >>, b, b_bits - 1), 0), a, a_bits - 1)

\* variant: phi whose first loop starts one bit too low
phi_SkipTopBit(a, b) ==
    LET b_bits == IF b = U32(0) THEN 0 ELSE U32Bits - leading_zeros(b)
        a_bits == IF a = U32(0) THEN 0 ELSE U32Bits - leading_zeros(a)
    IN  CopyLoop(ShlOr(MarkLoop(<< >>, b, b_bits - 2), 0), a, a_bits - 1)

phi(a, b) ==
    LET b_bits == IF b = U32(0) THEN 0 ELSE U32Bits - leading_zeros(b)
        a_bits == IF a = U32(0) THEN 0 ELSE U32Bits - leading_zeros(a)
    IN  CopyLoop(ShlOr(MarkLoop(<< >>, b, b_bits - 1), 0), a, a_bits - 1)

(***************************************************************************)
(* hash, lines 101-107, one statement per action.                          *)
(***************************************************************************)
\* lines 102-103
HashBytes ==
    /\ hpc = "start"
    /\ cursor' = [bytes |-> to_le_bytes(key), pos |-> 0]
    /\ hpc' = "h1"
    /\ UNCHANGED <<key, h1, h2, read1, read2, hres>>

\* line 104
HashFirst ==
    /\ hpc = "h1"
    /\ LET m == murmur3_32(cursor, MURMUR_SEED_1) IN
       /\ h1' = m.hash
       /\ cursor' = m.source
       /\ read1' = SubSeq(cursor.bytes, cursor.pos + 1, m.source.pos)
    /\ hpc' = "h2"
    /\ UNCHANGED <<key, h2, read2, hres>>

\* line 105
HashSecond ==
    /\ hpc = "h2"
    /\ LET m == murmur3_32(cursor, MURMUR_SEED_2) IN
       /\ h2' = m.hash
       /\ cursor' = m.source
       /\ read2' = SubSeq(cursor.bytes, cursor.pos + 1, m.source.pos)
    /\ hpc' = "phi"
    /\ UNCHANGED <<key, h1, read1, hres>>

\* line 106
HashPhi ==
    /\ hpc = "phi"
    /\ hres' = phi(h1, h2)
    /\ hpc' = "done"
    /\ UNCHANGED <<key, cursor, h1, h2, read1, read2>>

(***************************************************************************)
(* phi applied to the two input pairs.                                     *)
(***************************************************************************)
PhiCall ==
    /\ ppc = "call"
    /\ r1' = phi(in_a, in_b)
    /\ r2' = phi(in_a2, in_b2)
    /\ ppc' = "done"
    /\ UNCHANGED <<in_a, in_b, in_a2, in_b2>>

(***************************************************************************)
(* Initial states and specifications.                                      *)
(***************************************************************************)
MaxKey == 16      \* keys -MaxKey .. MaxKey (and i32::MAX, -i32::MAX) are hashed
MaxSmall == 7     \* phi is applied to 0 .. MaxSmall and to BigSamples

Keys == (-MaxKey..MaxKey) \cup {2147483647, -2147483647}

BigSamples ==
    {U32(15), U32(1023), U32(1024), Hex32(255, 255, 255, 255)}

U32Samples == {U32(n) : n \in 0..MaxSmall} \cup BigSamples

TableInit ==
    /\ overflow_checks \in BOOLEAN
    /\ pc = "new"
    /\ panic = ""
    /\ arg \in 0..MaxCap
    /\ size = 0
    /\ data = << >>
    /\ bucket_offsets = << >>
    /\ current_size = 0
    /\ remaining_size = 0
    /\ ret = NoRet

TableIdle ==
    /\ overflow_checks = FALSE /\ pc = "idle" /\ panic = "" /\ arg = 0 /\ size = 0
    /\ data = << >> /\ bucket_offsets = << >> /\ current_size = 0
    /\ remaining_size = 0 /\ ret = NoRet

HashInit ==
    /\ hpc = "start"
    /\ key \in Keys
    /\ cursor = [bytes |-> << >>, pos |-> 0]
    /\ h1 = << >> /\ h2 = << >> /\ read1 = << >> /\ read2 = << >> /\ hres = << >>

HashIdle ==
    /\ hpc = "idle" /\ key = 0 /\ cursor = [bytes |-> << >>, pos |-> 0]
    /\ h1 = << >> /\ h2 = << >> /\ read1 = << >> /\ read2 = << >> /\ hres = << >>

PhiInit ==
    /\ ppc = "call"
    /\ in_a \in U32Samples /\ in_b \in U32Samples
    /\ in_a2 \in U32Samples /\ in_b2 \in U32Samples
    /\ r1 = << >> /\ r2 = << >>

PhiIdle ==
    /\ ppc = "idle" /\ in_a = << >> /\ in_b = << >> /\ in_a2 = << >> /\ in_b2 = << >>
    /\ r1 = << >> /\ r2 = << >>

Init == TableInit /\ HashIdle /\ PhiIdle

Next ==
    \/ New /\ UNCHANGED <<hvars, pvars>>
    \/ LoopIter /\ UNCHANGED <<hvars, pvars>>
    \/ LoopExit /\ UNCHANGED <<hvars, pvars>>
    \/ GetBucket /\ UNCHANGED <<hvars, pvars>>
    \/ GetBucketMut /\ UNCHANGED <<hvars, pvars>>
    \/ BucketCount /\ UNCHANGED <<hvars, pvars>>
    \/ WriteSlot /\ UNCHANGED <<hvars, pvars>>

Spec == Init /\ [][Next]_vars

InitHash == TableIdle /\ HashInit /\ PhiIdle

NextHash ==
    \/ HashBytes /\ UNCHANGED <<tvars, pvars>>
    \/ HashFirst /\ UNCHANGED <<tvars, pvars>>
    \/ HashSecond /\ UNCHANGED <<tvars, pvars>>
    \/ HashPhi /\ UNCHANGED <<tvars, pvars>>

SpecHash == InitHash /\ [][NextHash]_vars

InitPhi == TableIdle /\ HashIdle /\ PhiInit

NextPhi == PhiCall /\ UNCHANGED <<tvars, hvars>>

SpecPhi == InitPhi /\ [][NextPhi]_vars

(***************************************************************************)
(* Definitions the table's properties are stated with.                     *)
(***************************************************************************)
RECURSIVE SumSeq(_)
SumSeq(s) == IF s = << >> THEN 0 ELSE Head(s) + SumSeq(Tail(s))

RECURSIVE CeilLog2From(_, _, _)
CeilLog2From(n, k, p) == IF p >= n THEN k ELSE CeilLog2From(n, k + 1, 2 * p)

\* the least k with 2^k >= n
CeilLog2(n) == CeilLog2From(n, 0, 1)

CeilHalf(n) == (n + 1) \div 2

\* the length of the slice get_bucket(i) returns
BucketLen(i) == Len(Elems(get_bucket(i)))

\* the lengths of get_bucket(0) .. get_bucket(bucket_count - 1)
BucketLens == [i \in 1..bucket_count |-> BucketLen(i - 1)]

\* the boundaries of the buckets allocated so far: during the loop the offsets
\* pushed, afterwards the offsets kept and the end of the backing store
Boundaries ==
    IF pc = "ready" THEN Append(bucket_offsets, Len(data)) ELSE bucket_offsets

\* the capacities of the buckets allocated so far
AllocatedCaps ==
    [i \in 1..(Len(Boundaries) - 1) |-> Boundaries[i + 1] - Boundaries[i]]

\* the loop iterations executed so far
Iterations == Len(AllocatedCaps)

InLoopPanic == pc = "panicked" /\ panic # "Size must be greater than 0"

\* C1: for every capacity N >= 1, new(N) completes without a panic and without
\* an underflow of remaining_size, and afterwards the lengths of get_bucket(0) ..
\* get_bucket(bucket_count()-1) sum to N and data has length N.
C1_SumExact ==
    arg >= 1 =>
        /\ pc # "panicked"
        /\ remaining_size >= 0
        /\ pc = "ready" => /\ SumSeq(BucketLens) = arg
                           /\ Len(data) = arg

\* C2: new(0) panics with "Size must be greater than 0" before any bucket is
\* computed: it never returns a table and calc_bucket_size is never entered.
C2_ZeroPanics ==
    arg = 0 =>
        /\ pc \in {"new", "panicked"}
        /\ pc = "panicked" => panic = "Size must be greater than 0"
        /\ bucket_offsets = << >> /\ data = << >>
        /\ size = 0 /\ current_size = 0 /\ remaining_size = 0
        /\ ret = NoRet

C2_Witness == arg = 0 /\ pc = "panicked" /\ panic = "Size must be greater than 0"

\* C5: for every capacity N >= 1 the partitioning loop terminates (it does not
\* end in a panic) after at most ceil(log2(N)) + 1 iterations.
C5_IterationBound ==
    arg >= 1 =>
        /\ ~InLoopPanic
        /\ Iterations <= CeilLog2(arg) + 1

\* C6 as stated: every bucket i of a constructed table has capacity
\* ceil(remaining_i / 2), remaining_i being N minus the capacities of the
\* earlier buckets, and partitioning stops when remaining is 0.
C6_CeilOfRemaining ==
    pc = "ready" =>
        /\ \A i \in 0..(bucket_count - 1) :
              BucketLen(i) = CeilHalf(arg - bucket_offsets[i + 1])
        /\ arg - Len(data) = 0

\* C6 as amended: the first bucket allocated has capacity ceil(N / 2) and every
\* later one ceil(c / 2) of its predecessor's capacity c; remaining_size is N
\* minus the capacities allocated, and the loop exits normally only at
\* remaining_size = 0.
C6_CeilOfPrevious ==
    /\ \A i \in 1..Len(AllocatedCaps) :
          AllocatedCaps[i] = IF i = 1 THEN CeilHalf(arg)
                             ELSE CeilHalf(AllocatedCaps[i - 1])
    /\ pc \in {"loop", "ready"} => remaining_size = arg - Len(data)
    /\ pc = "ready" => remaining_size = 0

C6_Witness ==
    pc = "ready" /\ arg = 10 /\ AllocatedCaps = <<5, 3, 2>> /\ remaining_size = 0

\* the region the source's accessors are to return for an index in range
RegionOf(i) ==
    [kind |-> "slice", start |-> bucket_offsets[i + 1],
     end |-> IF i + 1 < bucket_count THEN bucket_offsets[i + 2] ELSE Len(data)]

\* C8: on a constructed table get_bucket(i) and get_bucket_mut(i) never panic
\* for any usize i; for i >= bucket_count() both return an empty slice, for
\* i < bucket_count() both return the same non-empty region
\* data[offsets[i] .. offsets[i+1]) (to data.len() for the last bucket).
C8_AccessorsTotal ==
    /\ panic # "index out of bounds"
    /\ pc = "ready" =>
          \A i \in Indices :
             /\ get_bucket(i) = get_bucket_mut(i)
             /\ get_bucket(i).kind # "panic"
             /\ UGe(i, bucket_count) => get_bucket(i).kind = "empty"
             /\ ULt(i, bucket_count) =>
                   /\ get_bucket(i) = RegionOf(i)
                   /\ get_bucket(i).end > get_bucket(i).start
                   /\ get_bucket(i).end <= Len(data)
    /\ ret.op \in {"get_bucket", "get_bucket_mut"} =>
          /\ ret.region.kind # "panic"
          /\ UGe(ret.idx, bucket_count) => ret.region.kind = "empty" /\ ret.elems = << >>
          /\ ULt(ret.idx, bucket_count) =>
                /\ ret.region = RegionOf(ret.idx)
                /\ ret.elems # << >>
                /\ ret.elems = Slice(data, ret.region.start, ret.region.end)

C8_Witness ==
    /\ pc = "ready" /\ arg = 10 /\ bucket_count = 3
    /\ ret.op = "get_bucket" /\ ret.idx = 3 /\ ret.elems = << >>

\* the slots of the region get_bucket_mut(i) returns
SlotsOf(i) ==
    LET r == get_bucket_mut(i) IN
    IF r.kind = "slice" THEN r.start .. (r.end - 1) ELSE {}

LayoutIsPartition ==
    pc = "ready" =>
        /\ bucket_count >= 1
        /\ bucket_offsets[1] = 0
        /\ Len(data) = size
        /\ \A i \in 0..(bucket_count - 1) :
              /\ bucket_offsets[i + 1] = SumSeq(SubSeq(BucketLens, 1, i))
              /\ BucketLen(i) >= 1
              /\ i >= 1 => /\ bucket_offsets[i + 1] > bucket_offsets[i]
                           /\ BucketLen(i) <= BucketLen(i - 1)
        /\ \A i, j \in 0..(bucket_count - 1) :
              i # j => SlotsOf(i) \cap SlotsOf(j) = {}
        /\ UNION {SlotsOf(i) : i \in 0..(bucket_count - 1)} = 0..(Len(data) - 1)

LayoutFixed ==
    pc = "ready" =>
        /\ bucket_offsets' = bucket_offsets
        /\ Len(data') = Len(data)
        /\ size' = size

WriteStaysInBucket ==
    (pc = "ready" /\ ret.op = "get_bucket_mut" /\ data' # data) =>
        \A j \in 0..(bucket_count - 1) :
           j # ret.idx => Elems(get_bucket(j))' = Elems(get_bucket(j))

\* C10: after a successful new(N), under any sequence of bucket_count,
\* get_bucket and writes through get_bucket_mut(i), bucket_offsets and data.len()
\* never change, the buckets partition the backing store (first offset 0, each
\* offset the sum of the earlier sizes, strictly increasing, sizes non-increasing,
\* pairwise disjoint, covering 0 .. data.len()), and a write through
\* get_bucket_mut(i) leaves every get_bucket(j), j # i, unchanged.
C10_FixedPartition ==
    /\ []LayoutIsPartition
    /\ [][LayoutFixed /\ WriteStaysInBucket]_vars

C10_Witness ==
    /\ pc = "ready" /\ arg = 10
    /\ ret.op = "get_bucket_mut" /\ ret.idx = 1
    /\ ret.elems = <<0, 1, 0>>
    /\ data = <<0, 0, 0, 0, 0, 0, 1, 0, 0, 0>>


(***************************************************************************)
(* Definitions the properties of hash and phi are stated with.             *)
(***************************************************************************)
\* the 32 binary digits of a u32, most significant first
Digits32(v) == [i \in 1..32 |-> (v[4 - ((i - 1) \div 8)] \div Pow2(7 - ((i - 1) % 8))) % 2]

\* the effective bits of a u32, most significant first (none for 0)
EffDigits(v) == Strip(Digits32(v))

\* each digit of d preceded by a 1 marker
Marked(d) == [i \in 1..(2 * Len(d)) |-> IF i % 2 = 1 THEN 1 ELSE d[i \div 2]]

\* the digit string the pairing is specified to be
Encoding(a, b) == Marked(EffDigits(b)) \o <<0>> \o EffDigits(a)

\* the binary digits of a natural number, most significant first
RECURSIVE NatDigits(_)
NatDigits(n) == IF n = 0 THEN << >> ELSE Append(NatDigits(n \div 2), n % 2)

KeyBytes == to_le_bytes(key)

\* C3: in hash(x) both h1 (seed MURMUR_SEED_1) and h2 (seed MURMUR_SEED_2) are
\* computed over the four little-endian bytes of x (the second murmur3_32 call
\* reads the same four bytes as the first), and the result is phi(h1, h2).
C3_BothHashesReadKey ==
    /\ hpc \in {"phi", "done"} =>
          /\ read1 = KeyBytes
          /\ read2 = KeyBytes
          /\ h1 = murmur3_32([bytes |-> KeyBytes, pos |-> 0], MURMUR_SEED_1).hash
          /\ h2 = murmur3_32([bytes |-> KeyBytes, pos |-> 0], MURMUR_SEED_2).hash
    /\ hpc = "done" => hres = phi(h1, h2)

\* C4 as stated: phi is injective, zero included: phi(a, b) = phi(a', b')
\* implies a = a' and b = b'.
C4_Injective ==
    (ppc = "done" /\ r1 = r2) => (in_a = in_a2 /\ in_b = in_b2)

\* C4 as amended: phi is injective on the pairs whose second components are
\* both zero or both nonzero.
C4_InjectiveSameZeroness ==
    (ppc = "done" /\ r1 = r2 /\ ((in_b = U32(0)) = (in_b2 = U32(0))))
        => (in_a = in_a2 /\ in_b = in_b2)

C4_Witness ==
    /\ ppc = "done" /\ r1 = r2
    /\ in_a = U32(3) /\ in_b = U32(5) /\ in_a2 = U32(3) /\ in_b2 = U32(5)

\* C7: phi(a, b) is the integer whose binary digits are, most significant
\* first, a 1 marker and the bit for each effective bit of b, a 0 separator and
\* the effective bits of a; it has 2*bits(b) + 1 + bits(a) <= 97 digits, none
\* lost to the 128-bit result; phi(1,1) = 13, phi(2,3) = 122, phi(3,5) = 475,
\* phi(15,7) = 0b11111101111, phi(1024,1023) = 0b11111111111111111111010000000000.
C7_BitLayout ==
    ppc = "done" =>
        /\ r1 = Strip(Encoding(in_a, in_b))
        /\ Len(Encoding(in_a, in_b)) = 2 * Len(EffDigits(in_b)) + 1 + Len(EffDigits(in_a))
        /\ Len(Encoding(in_a, in_b)) <= 97
        /\ in_b # U32(0) => Len(r1) = Len(Encoding(in_a, in_b))
        /\ (in_a = U32(1) /\ in_b = U32(1)) => r1 = NatDigits(13)
        /\ (in_a = U32(2) /\ in_b = U32(3)) => r1 = NatDigits(122)
        /\ (in_a = U32(3) /\ in_b = U32(5)) => r1 = NatDigits(475)
        /\ (in_a = U32(15) /\ in_b = U32(7)) => r1 = <<1,1,1,1,1,1,0,1,1,1,1>>
        /\ (in_a = U32(1024) /\ in_b = U32(1023)) =>
              r1 = <<1,1,1,1,1,1,1,1,1,1,1,1,1,1,1,1,1,1,1,1,0,1,0,0,0,0,0,0,0,0,0,0>>

C7_Witness ==
    /\ ppc = "done" /\ in_a = U32(1024) /\ in_b = U32(1023)
    /\ r1 = <<1,1,1,1,1,1,1,1,1,1,1,1,1,1,1,1,1,1,1,1,0,1,0,0,0,0,0,0,0,0,0,0>>

\* C9: phi is order-sensitive: for nonzero a # b, phi(a, b) # phi(b, a).
C9_OrderSensitive ==
    (/\ ppc = "done"
     /\ in_a2 = in_b /\ in_b2 = in_a
     /\ in_a # in_b /\ in_a # U32(0) /\ in_b # U32(0))
        => r1 # r2

C9_Witness ==
    /\ ppc = "done"
    /\ in_a = U32(2) /\ in_b = U32(3) /\ in_a2 = U32(3) /\ in_b2 = U32(2)
    /\ r1 = NatDigits(122) /\ r2 = NatDigits(115)

====
